---------------------------- MODULE Spec2Model ----------------------------
(***************************************************************************)
(* openbadge_analysis.preprocessing.metadata: the three batch pipelines    *)
(* id_to_member_mapping, voltages and sample_counts.                       *)
(*                                                                         *)
(* A run reads the lines of fileobject one at a time through the           *)
(* pipeline's readfile generator (one action per line), and, when the      *)
(* stream ends, builds the returned table from the rows the generator      *)
(* yielded (one action per pipeline).  A line that json.loads cannot       *)
(* decode, or a record without a field readfile subscripts, raises out of  *)
(* the run.                                                                *)
(*                                                                         *)
(* Time is counted in ticks.  A datetime is the instant (ticks since the   *)
(* epoch); the zone of a datetime index decides where its local midnights  *)
(* are.  time_bins_size is a number of ticks.                              *)
(***************************************************************************)
EXTENDS Integers, Sequences, FiniteSets, TLC

VARIABLES
    fn,              \* the pipeline function that was called
    time_bins_size,  \* argument: the bin width (ticks)
    tz,              \* argument: the zone name
    fill_gaps,       \* argument of id_to_member_mapping
    keep_type,       \* argument of sample_counts
    lines,           \* the lines of fileobject consumed so far
    rows,            \* the tuples readfile has yielded so far
    pc,              \* "reading" | "done" | "raised"
    exc,             \* the exception that ended the run, "none" otherwise
    result           \* the returned table (rows in index order), <<>> until return

vars == <<fn, time_bins_size, tz, fill_gaps, keep_type, lines, rows, pc, exc, result>>

---------------------------------------------------------------------------
(* Bounds of the model *)

\* longest stream of the identity and voltage pipelines
MaxLen == 3
\* longest stream of the count pipeline
MaxCntLen == 2
\* latest timestamp of a record
MaxTime == 6
\* latest timestamp of a record of the count pipeline
MaxCntTime == 1
\* widest bin
MaxWidth == 2
\* ticks in a day
DayLen == 3

Widths == 1..MaxWidth
Zones == {"UTC", "US/Eastern"}
Timestamps == 0..MaxTime
BadgeAddresses == {"00:00:00:00:00:01", "00:00:00:00:00:02"}
RawMembers == {1, 2}
Volts == {3, 5}
RecordTypes == {"proximity received", "audio received", "unknown type"}

---------------------------------------------------------------------------
(* Library primitives the pipelines are built from *)

\* Python's str() of a member (a JSON number) is its decimal text.
Str(m) == CASE m = 1 -> "1" [] m = 2 -> "2"

\* core.mac_address_to_id: the device id of a hardware address.
mac_address_to_id(addr) ==
    CASE addr = "00:00:00:00:00:01" -> 1
      [] addr = "00:00:00:00:00:02" -> 2

\* The offset of a zone from UTC, in ticks (zones with no DST change in the run).
UtcOffset(zone) == CASE zone = "UTC" -> 0 [] zone = "US/Eastern" -> -1

\* Strings in ascending order, as Python compares them.
StrOrder == <<"1", "2", "NaN", "audio received", "proximity received", "unknown type">>
StrRank(s) == CHOOSE i \in 1..Len(StrOrder) : StrOrder[i] = s

\* Lexicographic order on key tuples of integers of the same length.
RECURSIVE LexLess(_, _)
LexLess(a, b) ==
    IF a = <<>> THEN FALSE
    ELSE IF Head(a) # Head(b) THEN Head(a) < Head(b)
    ELSE LexLess(Tail(a), Tail(b))

\* Timestamp.normalize() of a zone-aware instant: the local midnight at or before it.
normalize(t, zone) == t - ((t + UtcOffset(zone)) % DayLen)

\* pandas.tseries.resample._adjust_dates_anchored, closed = 'left', base = 0:
\* the first and the last bin edge for data from first to last, counted from
\* the midnight of the day of first.
_adjust_dates_anchored(first, last, width, zone) ==
    LET start_day == normalize(first, zone)
        foffset   == (first - start_day) % width
        loffset   == (last - start_day) % width
        fresult   == IF foffset > 0 THEN first - foffset ELSE first
        lresult   == IF loffset > 0 THEN last + (width - loffset) ELSE last + width
    IN  <<fresult, lresult>>

Min(S) == CHOOSE x \in S : \A y \in S : x <= y
Max(S) == CHOOSE x \in S : \A y \in S : y <= x

\* TimeGrouper labelling every bin by its right edge.
TimeGrouper_right(t, instants, width, zone) ==
    LET edges == _adjust_dates_anchored(Min(instants), Max(instants), width, zone)
    IN  edges[1] + ((t - edges[1]) \div width) * width + width

\* pd.TimeGrouper(width, key='datetime'): the bin label of the instant t, the
\* bins being laid over all the instants of the column (closed and labelled left).
TimeGrouper(t, instants, width, zone) ==
    LET edges == _adjust_dates_anchored(Min(instants), Max(instants), width, zone)
    IN  edges[1] + ((t - edges[1]) \div width) * width

\* The index key of row r under the index columns names, as a tuple of
\* integers in the order of the columns (a string by its rank).
KeyOf(r, names) ==
    [i \in 1..Len(names) |->
        IF names[i] \in {"member", "type"} THEN StrRank(r[names[i]]) ELSE r[names[i]]]

\* Stable insertion of row r into the sequence s sorted on the columns names.
RECURSIVE InsertSorted(_, _, _)
InsertSorted(s, r, names) ==
    IF s = <<>> THEN <<r>>
    ELSE IF LexLess(KeyOf(r, names), KeyOf(Head(s), names)) THEN <<r>> \o s
    ELSE <<Head(s)>> \o InsertSorted(Tail(s), r, names)

\* sort_index() of a table indexed by the columns names: the rows in ascending
\* order of their index, equal keys in their former order.
RECURSIVE sort_index(_, _)
sort_index(s, names) ==
    IF s = <<>> THEN <<>>
    ELSE InsertSorted(sort_index(SubSeq(s, 1, Len(s) - 1), names), s[Len(s)], names)

---------------------------------------------------------------------------
(* id_to_member_mapping *)

IdIndex == <<"datetime", "id">>
IdKey(r) == KeyOf(r, IdIndex)

\* readfile of id_to_member_mapping: the tuple yielded for a decoded line.
IdReadfile(line) ==
    [timestamp |-> line.data.timestamp,
     id        |-> mac_address_to_id(line.data.badge_address),
     member    |-> Str(line.data.member)]

\* The frame with its datetime column binned: the grouping labels of
\* groupby([TimeGrouper, 'id']), row by row in stream order.
IdBinned(rs, width, zone) ==
    LET instants == {rs[i].timestamp : i \in 1..Len(rs)}
    IN  [i \in 1..Len(rs) |->
            [datetime |-> TimeGrouper(rs[i].timestamp, instants, width, zone),
             id       |-> rs[i].id,
             member   |-> rs[i].member]]

\* groupby(...).last(): the member of the last row of every group.
GroupByLast(df) ==
    LET lasts == {i \in 1..Len(df) :
                    \A j \in (i + 1)..Len(df) : IdKey(df[j]) # IdKey(df[i])}
        F[i \in 0..Len(df)] ==
            IF i = 0 THEN <<>>
            ELSE IF i \in lasts THEN Append(F[i - 1], df[i]) ELSE F[i - 1]
    IN  sort_index(F[Len(df)], IdIndex)

\* groupby(...).first(): for every (datetime, id) of the frame the member of
\* its first row in frame order; the groups in ascending key order.
GroupByFirst(df) ==
    LET firsts == {i \in 1..Len(df) :
                     \A j \in 1..(i - 1) : IdKey(df[j]) # IdKey(df[i])}
        F[i \in 0..Len(df)] ==
            IF i = 0 THEN <<>>
            ELSE IF i \in firsts THEN Append(F[i - 1], df[i]) ELSE F[i - 1]
    IN  sort_index(F[Len(df)], IdIndex)

\* The range of instants from lo to hi (inclusive) in steps of width.
RECURSIVE DateRange(_, _, _)
DateRange(lo, hi, width) ==
    IF lo > hi THEN <<>> ELSE <<lo>> \o DateRange(lo + width, hi, width)

\* Resampler.fillna(method='ffill') of one device's series obs (sorted, one
\* row per observed bin): the series on the bin edges of its own range.
ResampleFfill(obs, width, zone) ==
    LET n         == Len(obs)
        edges     == _adjust_dates_anchored(obs[1].datetime, obs[n].datetime, width, zone)
        binner    == DateRange(edges[1], edges[2], width)
        res_index == SubSeq(binner, 1, Len(binner) - 1)
        \* the index has a frequency of its own, and it is the bin width
        same_freq == n >= 3 /\ \A i \in 1..(n - 1) :
                                  obs[i + 1].datetime - obs[i].datetime = width
        known(e)  == {i \in 1..n : obs[i].datetime <= e}
    IN  [k \in 1..Len(res_index) |->
            [datetime |-> res_index[k],
             id       |-> obs[1].id,
             member   |-> IF same_freq THEN obs[k].member
                          ELSE IF known(res_index[k]) = {} THEN "NaN"
                          ELSE obs[Max(known(res_index[k]))].member]]

\* The resampled series of the devices in ids, in ascending order of device id.
RECURSIVE ResampleGroups(_, _, _, _)
ResampleGroups(idmap, ids, width, zone) ==
    IF ids = {} THEN <<>>
    ELSE LET d == Min(ids)
         IN  ResampleFfill(SelectSeq(idmap, LAMBDA r : r.id = d), width, zone)
                \o ResampleGroups(idmap, ids \ {d}, width, zone)

_id_to_member_mapping_fill_gaps(idmap, width, zone) ==
    LET ids == {idmap[i].id : i \in 1..Len(idmap)}
    IN  sort_index(ResampleGroups(idmap, ids, width, zone), IdIndex)

id_to_member_mapping(rs, width, zone, fill) ==
    LET s == sort_index(GroupByFirst(IdBinned(rs, width, zone)), IdIndex)
    IN  IF fill THEN _id_to_member_mapping_fill_gaps(s, width, zone) ELSE s

---------------------------------------------------------------------------
(* voltages *)

\* A float is kept as an exact fraction in lowest terms.
RECURSIVE Gcd(_, _)
Gcd(a, b) == IF b = 0 THEN a ELSE Gcd(b, a % b)

\* float() of a JSON number.
Float(v) == [num |-> v, den |-> 1]

VoltIndex == <<"datetime", "member">>
VoltKey(r) == KeyOf(r, VoltIndex)

\* readfile of voltages: the tuple yielded for a decoded line.
VoltReadfile(line) ==
    [timestamp |-> line.data.timestamp,
     member    |-> Str(line.data.member),
     voltage   |-> Float(line.data.voltage)]

\* The grouping labels of groupby([TimeGrouper, 'member']), row by row.
VoltBinned(rs, width, zone) ==
    LET instants == {rs[i].timestamp : i \in 1..Len(rs)}
    IN  [i \in 1..Len(rs) |->
            [datetime |-> TimeGrouper(rs[i].timestamp, instants, width, zone),
             member   |-> rs[i].member,
             voltage  |-> rs[i].voltage]]

\* The sum of the group instead of its mean.
GroupMean_sum(df, idx) ==
    LET S[i \in 0..Len(df)] ==
            IF i = 0 THEN 0
            ELSE IF i \in idx THEN S[i - 1] + df[i].voltage.num ELSE S[i - 1]
    IN  [num |-> S[Len(df)], den |-> 1]

\* The mean of the voltage column over the rows of df at the indices in idx:
\* their sum, added row by row, over their number.
GroupMean(df, idx) ==
    LET S[i \in 0..Len(df)] ==
            IF i = 0 THEN 0
            ELSE IF i \in idx THEN S[i - 1] + df[i].voltage.num ELSE S[i - 1]
        n == Cardinality(idx)
        g == Gcd(S[Len(df)], n)
    IN  [num |-> S[Len(df)] \div g, den |-> n \div g]

\* groupby(...).mean(): for every (datetime, member) of the frame the mean of
\* its rows; the groups in ascending key order.
GroupByMean(df) ==
    LET firsts == {i \in 1..Len(df) :
                     \A j \in 1..(i - 1) : VoltKey(df[j]) # VoltKey(df[i])}
        group(i) == {j \in 1..Len(df) : VoltKey(df[j]) = VoltKey(df[i])}
        F[i \in 0..Len(df)] ==
            IF i = 0 THEN <<>>
            ELSE IF i \in firsts
                 THEN Append(F[i - 1], [datetime |-> df[i].datetime,
                                        member   |-> df[i].member,
                                        voltage  |-> GroupMean(df, group(i))])
                 ELSE F[i - 1]
    IN  sort_index(F[Len(df)], VoltIndex)

voltages(rs, width, zone) ==
    sort_index(GroupByMean(VoltBinned(rs, width, zone)), VoltIndex)

---------------------------------------------------------------------------
(* sample_counts *)

\* The index of the count table with and without keep_type.
CntIndex(keep) ==
    IF keep THEN <<"datetime", "type", "member">> ELSE <<"datetime", "member">>

\* readfile taking the length of rssi_distances for audio records too.
CountedField_rssi(type) ==
    IF type = "proximity received" THEN "rssi_distances"
    ELSE IF type = "audio received" THEN "rssi_distances"
    ELSE ""

\* The field of data that readfile of sample_counts takes the length of,
\* "" when it reads none.
CountedField(type) ==
    IF type = "proximity received" THEN "rssi_distances"
    ELSE IF type = "audio received" THEN "samples"
    ELSE ""

\* data[...] raises KeyError for a field the record does not have.
CntRaises(line) ==
    CountedField(line.type) # "" /\ CountedField(line.type) \notin DOMAIN line.data

\* readfile of sample_counts: the tuple yielded for a decoded line.
CntReadfile(line) ==
    [timestamp |-> line.data.timestamp,
     type      |-> line.type,
     member    |-> Str(line.data.member),
     cnt       |-> IF CountedField(line.type) = "" THEN -1
                   ELSE Len(line.data[CountedField(line.type)])]

\* sample_counts summing the counts of the rows of one key into one row.
sample_counts_summed(rs, zone, keep) ==
    LET df == [i \in 1..Len(rs) |->
                 IF keep
                 THEN [datetime |-> rs[i].timestamp, type |-> rs[i].type,
                       member |-> rs[i].member, cnt |-> rs[i].cnt]
                 ELSE [datetime |-> rs[i].timestamp,
                       member |-> rs[i].member, cnt |-> rs[i].cnt]]
        key(i) == KeyOf(df[i], CntIndex(keep))
        S[i \in 1..Len(df), j \in 0..Len(df)] ==
            IF j = 0 THEN 0
            ELSE IF key(j) = key(i) THEN S[i, j - 1] + df[j].cnt ELSE S[i, j - 1]
        F[i \in 0..Len(df)] ==
            IF i = 0 THEN <<>>
            ELSE IF \A j \in 1..(i - 1) : key(j) # key(i)
                 THEN Append(F[i - 1], [df[i] EXCEPT !.cnt = S[i, Len(df)]])
                 ELSE F[i - 1]
    IN  sort_index(F[Len(df)], CntIndex(keep))

\* sample_counts without its sort_index.
sample_counts_unsorted(rs, zone, keep) ==
    [i \in 1..Len(rs) |->
        IF keep
        THEN [datetime |-> rs[i].timestamp, type |-> rs[i].type,
              member |-> rs[i].member, cnt |-> rs[i].cnt]
        ELSE [datetime |-> rs[i].timestamp,
              member |-> rs[i].member, cnt |-> rs[i].cnt]]

\* The frame indexed by its datetime column (and type), unbinned and ungrouped.
sample_counts(rs, zone, keep) ==
    LET df == [i \in 1..Len(rs) |->
                 IF keep
                 THEN [datetime |-> rs[i].timestamp, type |-> rs[i].type,
                       member |-> rs[i].member, cnt |-> rs[i].cnt]
                 ELSE [datetime |-> rs[i].timestamp,
                       member |-> rs[i].member, cnt |-> rs[i].cnt]]
    IN  sort_index(df, CntIndex(keep))

---------------------------------------------------------------------------
(* The run *)

\* A line json.loads cannot decode.
Malformed == [malformed |-> TRUE]
Decodes(line) == "malformed" \notin DOMAIN line

IdLines ==
    {[data |-> [timestamp |-> t, badge_address |-> a, member |-> m]] :
        t \in Timestamps, a \in BadgeAddresses, m \in RawMembers}

InitId ==
    /\ fn = "id_to_member_mapping"
    /\ time_bins_size \in Widths
    /\ tz \in Zones
    /\ fill_gaps \in BOOLEAN
    /\ keep_type = FALSE
    /\ lines = <<>> /\ rows = <<>> /\ pc = "reading" /\ exc = "none" /\ result = <<>>

args == <<fn, time_bins_size, tz, fill_gaps, keep_type>>

\* readfile decodes the next line and yields its tuple.
IdReadfileYield ==
    /\ fn = "id_to_member_mapping" /\ pc = "reading" /\ Len(lines) < MaxLen
    /\ \E line \in IdLines :
          /\ lines' = Append(lines, line)
          /\ rows' = Append(rows, IdReadfile(line))
    /\ UNCHANGED <<args, pc, exc, result>>

\* readfile catching the decode error and going on to the next line.
IdReadfileRaise_skip ==
    /\ fn = "id_to_member_mapping" /\ pc = "reading" /\ Len(lines) < MaxLen
    /\ lines' = Append(lines, Malformed)
    /\ UNCHANGED <<args, rows, pc, exc, result>>

\* json.loads raises on the next line: the exception leaves the run.
IdReadfileRaise ==
    /\ fn = "id_to_member_mapping" /\ pc = "reading" /\ Len(lines) < MaxLen
    /\ lines' = Append(lines, Malformed)
    /\ pc' = "raised" /\ exc' = "ValueError"
    /\ UNCHANGED <<args, rows, result>>

\* The stream is exhausted: the frame is built, grouped, filled and returned.
IdReturn ==
    /\ fn = "id_to_member_mapping" /\ pc = "reading"
    /\ result' = id_to_member_mapping(rows, time_bins_size, tz, fill_gaps)
    /\ pc' = "done"
    /\ UNCHANGED <<args, lines, rows, exc>>

NextId == IdReadfileYield \/ IdReadfileRaise \/ IdReturn

SpecId == InitId /\ [][NextId]_vars

VoltLines ==
    {[data |-> [timestamp |-> t, member |-> m, voltage |-> v]] :
        t \in Timestamps, m \in RawMembers, v \in Volts}

InitVolt ==
    /\ fn = "voltages"
    /\ time_bins_size \in Widths
    /\ tz \in Zones
    /\ fill_gaps = FALSE
    /\ keep_type = FALSE
    /\ lines = <<>> /\ rows = <<>> /\ pc = "reading" /\ exc = "none" /\ result = <<>>

VoltReadfileYield ==
    /\ fn = "voltages" /\ pc = "reading" /\ Len(lines) < MaxLen
    /\ \E line \in VoltLines :
          /\ lines' = Append(lines, line)
          /\ rows' = Append(rows, VoltReadfile(line))
    /\ UNCHANGED <<args, pc, exc, result>>

VoltReadfileRaise ==
    /\ fn = "voltages" /\ pc = "reading" /\ Len(lines) < MaxLen
    /\ lines' = Append(lines, Malformed)
    /\ pc' = "raised" /\ exc' = "ValueError"
    /\ UNCHANGED <<args, rows, result>>

VoltReturn ==
    /\ fn = "voltages" /\ pc = "reading"
    /\ result' = voltages(rows, time_bins_size, tz)
    /\ pc' = "done"
    /\ UNCHANGED <<args, lines, rows, exc>>

NextVolt == VoltReadfileYield \/ VoltReadfileRaise \/ VoltReturn

SpecVolt == InitVolt /\ [][NextVolt]_vars

\* The rssi_distances and samples lists a record may carry.
Lists == {<<>>, <<7>>, <<7, 7>>}

\* data objects: timestamp and member, and any of rssi_distances and samples.
CntData ==
    LET base == {[timestamp |-> t, member |-> m] : t \in 0..MaxCntTime, m \in RawMembers}
        rssi == {[timestamp |-> b.timestamp, member |-> b.member, rssi_distances |-> l] :
                    b \in base, l \in Lists}
        smpl == {[timestamp |-> b.timestamp, member |-> b.member, samples |-> l] :
                    b \in base, l \in Lists}
        both == {[timestamp |-> b.timestamp, member |-> b.member,
                  rssi_distances |-> l, samples |-> k] :
                    b \in base, l \in Lists, k \in Lists}
    IN  base \cup rssi \cup smpl \cup both

CntLines == {[type |-> ty, data |-> d] : ty \in RecordTypes, d \in CntData}

\* sample_counts takes no time_bins_size and never reads it: the variable holds
\* the width the caller has configured for the tables of the other pipelines.
InitCnt ==
    /\ fn = "sample_counts"
    /\ time_bins_size \in Widths
    /\ tz \in Zones
    /\ fill_gaps = FALSE
    /\ keep_type \in BOOLEAN
    /\ lines = <<>> /\ rows = <<>> /\ pc = "reading" /\ exc = "none" /\ result = <<>>

CntReadfileYield ==
    /\ fn = "sample_counts" /\ pc = "reading" /\ Len(lines) < MaxCntLen
    /\ \E line \in CntLines :
          /\ ~CntRaises(line)
          /\ lines' = Append(lines, line)
          /\ rows' = Append(rows, CntReadfile(line))
    /\ UNCHANGED <<args, pc, exc, result>>

\* json.loads raises on the next line, or readfile subscripts a missing field.
CntReadfileRaise ==
    /\ fn = "sample_counts" /\ pc = "reading" /\ Len(lines) < MaxCntLen
    /\ \/ lines' = Append(lines, Malformed) /\ exc' = "ValueError"
       \/ \E line \in CntLines :
             CntRaises(line) /\ lines' = Append(lines, line) /\ exc' = "KeyError"
    /\ pc' = "raised"
    /\ UNCHANGED <<args, rows, result>>

CntReturn ==
    /\ fn = "sample_counts" /\ pc = "reading"
    /\ result' = sample_counts(rows, tz, keep_type)
    /\ pc' = "done"
    /\ UNCHANGED <<args, lines, rows, exc>>

NextCnt == CntReadfileYield \/ CntReadfileRaise \/ CntReturn

SpecCnt == InitCnt /\ [][NextCnt]_vars

Init == InitCnt \/ InitVolt \/ InitId

Next == NextCnt \/ NextVolt \/ NextId

Spec == Init /\ [][Next]_vars

---------------------------------------------------------------------------
(* Properties *)

IdDone   == fn = "id_to_member_mapping" /\ pc = "done"
VoltDone == fn = "voltages" /\ pc = "done"
CntDone  == fn = "sample_counts" /\ pc = "done"

\* The identity mapping of the run's stream without gap filling.
Observed == id_to_member_mapping(rows, time_bins_size, tz, FALSE)
BinsOf(obs, d) == {obs[i].datetime : i \in {j \in 1..Len(obs) : obs[j].id = d}}
IdsOf(obs) == {obs[i].id : i \in 1..Len(obs)}
ResultRows == {result[k] : k \in 1..Len(result)}

\* C1: with fill_gaps the returned mapping has, for every device, exactly one
\* row for every bin start from the device's first observed bin to its last,
\* a bin width apart.
C1_GapFilledCoversRange ==
    (IdDone /\ fill_gaps) =>
        LET obs == Observed IN
        \A d \in IdsOf(obs) :
            LET bins == BinsOf(obs, d) IN
            \A b \in Min(bins)..Max(bins) :
                ((b - Min(bins)) % time_bins_size = 0) =>
                    Cardinality({k \in 1..Len(result) :
                                    result[k].datetime = b /\ result[k].id = d}) = 1

\* C2: with fill_gaps, a bin of a device with no record, right after an
\* observed bin T of the device and not after the device's last observed bin,
\* has the wearer observed at T.
C2_ForwardFillFromPrevious ==
    (IdDone /\ fill_gaps) =>
        LET obs == Observed IN
        \A i \in 1..Len(obs) :
            LET bins == BinsOf(obs, obs[i].id)
                next == obs[i].datetime + time_bins_size
            IN  (next \notin bins /\ next <= Max(bins)) =>
                    [datetime |-> next, id |-> obs[i].id, member |-> obs[i].member]
                        \in ResultRows

\* The records of device d whose instant lies in the bin [b, b + width).
RecordsIn(b, d) ==
    {i \in 1..Len(rows) : rows[i].id = d /\ b <= rows[i].timestamp
                            /\ rows[i].timestamp < b + time_bins_size}

\* C3: without fill_gaps every row of the mapping carries the wearer of the
\* first record, in stream order, of its device in its bin, and every record
\* lies in the bin of a row of its device.
C3_FirstInStreamOrderWins ==
    (IdDone /\ ~fill_gaps) =>
        /\ \A k \in 1..Len(result) :
              LET g == RecordsIn(result[k].datetime, result[k].id)
              IN  g # {} /\ result[k].member = rows[Min(g)].member
        /\ \A i \in 1..Len(rows) :
              \E k \in 1..Len(result) : i \in RecordsIn(result[k].datetime, result[k].id)

\* Two records of one device in one bin name different wearers, the earlier in
\* the stream being the later in time, with a record of another device between.
C3_Witness ==
    /\ IdDone /\ ~fill_gaps /\ Len(rows) = 3 /\ Len(result) = 2
    /\ rows[1].id = rows[3].id /\ rows[2].id # rows[1].id
    /\ rows[1].member # rows[3].member
    /\ rows[1].timestamp > rows[3].timestamp
    /\ \E k \in 1..Len(result) :
          {1, 3} \subseteq RecordsIn(result[k].datetime, result[k].id)
          /\ result[k].member = rows[1].member

\* The index columns of the returned table.
ResultIndex ==
    IF fn = "id_to_member_mapping" THEN IdIndex
    ELSE IF fn = "voltages" THEN VoltIndex
    ELSE CntIndex(keep_type)

Ascending == \A k \in 1..(Len(result) - 1) :
                ~LexLess(KeyOf(result[k + 1], ResultIndex), KeyOf(result[k], ResultIndex))
UniqueKeys == \A k \in 1..Len(result) : \A l \in 1..Len(result) :
                KeyOf(result[k], ResultIndex) = KeyOf(result[l], ResultIndex) => k = l

\* C4 as stated: every returned table is in ascending order of its full key
\* and has no two rows with the same key.
C4_SortedAndUniqueEverywhere == pc = "done" => (Ascending /\ UniqueKeys)

\* C4 as amended: every returned table is in ascending order of its full key;
\* the tables of id_to_member_mapping and voltages have no two rows with the
\* same key.
C4_SortedAndUniqueWhereGrouped ==
    pc = "done" => (Ascending /\ (fn # "sample_counts" => UniqueKeys))

\* A returned count table holds two rows with the same key and different counts.
C4_WitnessCounts ==
    /\ CntDone /\ Len(result) = 2
    /\ KeyOf(result[1], ResultIndex) = KeyOf(result[2], ResultIndex)
    /\ result[1].cnt # result[2].cnt

\* The row of the table that the record rows[i] belongs to by its second key.
SameOwner(r, i) ==
    IF fn = "id_to_member_mapping" THEN r.id = rows[i].id ELSE r.member = rows[i].member

EarliestInstant == Min({rows[i].timestamp : i \in 1..Len(rows)})

\* The largest boundary origin + k * width not after the instant t.
Floor(t, origin) == origin + ((t - origin) \div time_bins_size) * time_bins_size

C6_CountByTypeAlone ==
    fn = "sample_counts" =>
        /\ \A i \in 1..Len(rows) :
              IF lines[i].type = "proximity received"
              THEN /\ "rssi_distances" \in DOMAIN lines[i].data
                   /\ rows[i].cnt = Len(lines[i].data.rssi_distances)
              ELSE IF lines[i].type = "audio received"
              THEN /\ "samples" \in DOMAIN lines[i].data
                   /\ rows[i].cnt = Len(lines[i].data.samples)
              ELSE rows[i].cnt = -1
        /\ exc = "KeyError" =>
              lines[Len(lines)].type \in {"proximity received", "audio received"}
        /\ \A i \in 1..Len(lines) :
              (Decodes(lines[i]) /\ lines[i].type = "unknown type") => i <= Len(rows)

\* A record of an unknown type that carries both lists, and an audio record
\* whose two lists differ in length, were counted and the table returned.
C6_Witness ==
    /\ CntDone /\ Len(rows) = 2
    /\ lines[1].type = "unknown type"
    /\ DOMAIN lines[1].data = {"timestamp", "member", "rssi_distances", "samples"}
    /\ Len(lines[1].data.rssi_distances) = 2
    /\ rows[1].cnt = -1
    /\ lines[2].type = "audio received"
    /\ "rssi_distances" \in DOMAIN lines[2].data
    /\ Len(lines[2].data.rssi_distances) = 2 /\ rows[2].cnt = 1

\* The row of the count table made from the yielded tuple r.
CntRow(r) ==
    IF keep_type
    THEN [datetime |-> r.timestamp, type |-> r.type, member |-> r.member, cnt |-> r.cnt]
    ELSE [datetime |-> r.timestamp, member |-> r.member, cnt |-> r.cnt]

\* C7: the count table has one row per record of the stream, each with the
\* record's own count: as many rows as lines, and every row as many times as
\* there are records that make it.
C7_OneRowPerRecord ==
    CntDone =>
        /\ Len(result) = Len(lines)
        /\ \A i \in 1..Len(rows) :
              Cardinality({k \in 1..Len(result) : result[k] = CntRow(rows[i])})
                 = Cardinality({j \in 1..Len(rows) : CntRow(rows[j]) = CntRow(rows[i])})

\* Without keep_type, two records of one wearer at one instant and of
\* different types stay two rows, each with its own count.
C7_Witness ==
    /\ CntDone /\ ~keep_type /\ Len(rows) = 2 /\ Len(result) = 2
    /\ rows[1].timestamp = rows[2].timestamp /\ rows[1].member = rows[2].member
    /\ rows[1].type # rows[2].type
    /\ rows[1].cnt = 2 /\ rows[2].cnt = 1
    /\ {result[1].cnt, result[2].cnt} = {1, 2}

\* The voltage frame of the run with its bins.
VoltFrame == VoltBinned(rows, time_bins_size, tz)
VoltGroup(b, m) == {i \in 1..Len(rows) : VoltFrame[i].datetime = b /\ VoltFrame[i].member = m}
RECURSIVE SumOver(_)
SumOver(idx) ==
    IF idx = {} THEN 0
    ELSE LET i == CHOOSE j \in idx : TRUE
         IN  rows[i].voltage.num + SumOver(idx \ {i})

\* The stream of rows in the order p (a permutation of its indices).
Permuted(p) == [i \in 1..Len(rows) |-> rows[p[i]]]
RowOrders == {p \in [1..Len(rows) -> 1..Len(rows)] :
                    \A i, j \in 1..Len(rows) : p[i] = p[j] => i = j}

C9_AllOrNothing ==
    /\ (\E i \in 1..Len(lines) : ~Decodes(lines[i])) =>
          (pc = "raised" /\ exc = "ValueError" /\ result = <<>>)
    /\ pc = "raised" => result = <<>>
    /\ pc = "done" =>
          /\ \A i \in 1..Len(lines) : Decodes(lines[i])
          /\ Len(rows) = Len(lines)
          /\ \A i \in 1..Len(rows) : \E k \in 1..Len(result) : SameOwner(result[k], i)
          /\ fn = "sample_counts" => Len(result) = Len(rows)

\* The third line of a stream does not decode after two records were read:
\* the run is raised and nothing is returned.
C9_Witness ==
    /\ pc = "raised" /\ exc = "ValueError" /\ Len(lines) = 3 /\ Len(rows) = 2
    /\ ~Decodes(lines[3]) /\ result = <<>>

\* C10: with fill_gaps the returned mapping holds every row of the mapping
\* without fill_gaps, has the same devices, and has no row of a device before
\* the device's first or after its last observed bin.
C10_FillOnlyAddsRows ==
    (IdDone /\ fill_gaps) =>
        LET obs == Observed IN
        /\ \A i \in 1..Len(obs) : obs[i] \in ResultRows
        /\ {result[k].id : k \in 1..Len(result)} = IdsOf(obs)
        /\ \A k \in 1..Len(result) :
              /\ result[k].id \in IdsOf(obs)
              /\ Min(BinsOf(obs, result[k].id)) <= result[k].datetime
              /\ result[k].datetime <= Max(BinsOf(obs, result[k].id))

=============================================================================
